---- MODULE Spec2Model ----
(***************************************************************************)
(* Model of setup() in Carla-RL/setup.py: the retry loop that launches a   *)
(* CARLA server, registers an atexit hook for it, connects and configures  *)
(* a client, and on RuntimeError kills the server and retries.             *)
(*                                                                         *)
(* The process-wide atexit registry is modelled as the ordered list of     *)
(* registered callbacks; a callback is identified by its function object   *)
(* (atexit.unregister compares callbacks with ==, which for Python         *)
(* functions is object identity).  Process ids are the positions in the    *)
(* sequence of spawned processes.  External calls (time.sleep, the carla   *)
(* client API) are opaque: each returns or raises, chosen                  *)
(* nondeterministically.  The program is followed until interpreter exit,  *)
(* at which point the atexit callbacks run last-registered first.          *)
(* Assertions are enabled (the interpreter is not run with -O), and the    *)
(* kill primitives always return.                                          *)
(* os.environ is a mapping from the names that are set to their values;    *)
(* the simulator answers requests only when the shell started by Popen     *)
(* found the executable under CARLA_ROOT.  num_max_restarts is a number of *)
(* attempts, so the naturals up to MaxRestarts are explored.               *)
(***************************************************************************)
EXTENDS Integers, Sequences, FiniteSets, TLC

\* Largest num_max_restarts explored.
MaxRestarts == 3

\* setup.py:53
BasePort == 2000

\* setup.py:43
Towns == {"Town01", "Town02", "Town03", "Town04", "Town05"}

\* Arguments explored for `town`: two allowed names and one that is not.
TownArgs == {"Town01", "Town04", "Town10"}

\* Arguments explored for `fps`; 0 makes 1.0 / fps raise.
FpsArgs == {0, 20}

\* Values of os.name.
OsNames == {"nt", "posix"}

\* Frame ids the simulator may return from apply_settings.
FrameIds == {7, 8}

\* Ambient environments explored: CARLA_ROOT unset, set to a directory
\* holding the simulator, or set to one that does not; SDL_VIDEODRIVER
\* unset or set.
BaseEnv == [k \in {"PATH", "DISPLAY"} |-> IF k = "PATH" THEN "/usr/bin" ELSE ":0"]

RootEnvs ==
    {BaseEnv} \cup
    {[k \in {"PATH", "DISPLAY", "CARLA_ROOT"} |->
        IF k = "CARLA_ROOT" THEN r ELSE BaseEnv[k]] : r \in {"/opt/carla", "/nowhere"}}

AmbientEnvs ==
    RootEnvs \cup
    {[k \in DOMAIN e \cup {"SDL_VIDEODRIVER"} |->
        IF k = "SDL_VIDEODRIVER" THEN "x11" ELSE e[k]] : e \in RootEnvs}

\* Directories in which the simulator executable exists.
InstallDirs == {"/opt/carla"}

\* Settings of a freshly started simulator: asynchronous, variable step.
DefaultSettings ==
    [synchronous_mode |-> FALSE, fixed_delta_seconds |-> <<0, 1>>]

\* Function object identity of the builtin os.killpg; lambda objects get
\* the identities 1, 2, ... in order of creation.
KillPgFunc == 0

VARIABLES
    town,               \* argument
    fps,                \* argument
    num_max_restarts,   \* argument
    os_name,            \* os.name
    os_environ,         \* os.environ of the program
    pc,                 \* position in setup() / in the program
    attempts,           \* local `attempts`
    port,               \* local `port`
    server,             \* local `server`: pid of the latest Popen, 0 = unbound
    procs,              \* spawned processes, pid = index: the port and
                        \* environment given to Popen, whether it was killed,
                        \* and the simulator's map, weather, settings, frame
    hooks,              \* atexit registry, in registration order
    nlambda,            \* number of lambda objects created so far
    kills,              \* kill calls issued so far: [pid, by]
    client,             \* port the carla.Client was created for, 0 = none
    frame,              \* local `frame`, 0 = unbound
    steps,              \* statements of the current attempt that completed
    exc,                \* exception in flight, "none" if none
    result,             \* value returned by setup(), <<>> if none
    exitIdx,            \* next atexit callback to run during interpreter exit
    exitStatus          \* process exit status, -1 while running

vars == <<town, fps, num_max_restarts, os_name, os_environ, pc, attempts,
          port, server, procs, hooks, nlambda, kills, client, frame, steps,
          exc, result, exitIdx, exitStatus>>

params == <<town, fps, num_max_restarts, os_name>>

----------------------------------------------------------------------------
\* Pure parts of setup()

\* Faulty variant of TownOk: the town is not validated.
TownOkAny(t) == TRUE

\* setup.py:43  assert town in (...)
TownOk(t) == t \in Towns

\* Faulty variant of LoopCond: off by one.
LoopCondInclusive(a, n) == a <= n

\* setup.py:48  while attempts < num_max_restarts
LoopCond(a, n) == a < n

\* Faulty variant of PortOf: every attempt uses the base port.
PortOfFixed(a) == BasePort

\* setup.py:53  port = 2000 + attempts
PortOf(a) == BasePort + a

\* Faulty variant of IsRetryable: the clause names another exception class.
IsRetryableConnectionError(e) == e = "ConnectionError"

\* setup.py:93  except RuntimeError
IsRetryable(e) == e = "RuntimeError"

\* Faulty variant of NextAttempt: a failure is counted twice.
NextAttemptTwice(a) == a + 2

\* setup.py:95  attempts += 1
NextAttempt(a) == a + 1

\* Faulty variant of NewHook: the callback is bound to the pid of the first
\* server, whichever attempt registers it.
NewHookFirstPid(os, pid, lam) == [func |-> KillPgFunc, pid |-> 1]

\* setup.py:66 / 72  the callback handed to atexit.register.
\* nt: a new lambda that reads server.pid when called (pid 0 = not bound at
\* registration); posix: os.killpg with the pid bound at registration.
NewHook(os, pid, lam) ==
    IF os = "nt" THEN [func |-> lam, pid |-> 0]
                 ELSE [func |-> KillPgFunc, pid |-> pid]

\* setup.py:103  atexit.unregister(f): drops every callback equal to f.
Unregister(reg, f) == SelectSeq(reg, LAMBDA h : h.func # f)

\* The pid a callback kills when it runs; a lambda reads the closure
\* variable `server` at call time (setup.py:66), os.killpg uses its bound
\* argument (setup.py:72).
HookTarget(h, srv) == IF h.func = KillPgFunc THEN h.pid ELSE srv

\* Faulty variant of Killed: the signal has no effect.
KilledNothing(ps, pid) == ps

\* os.kill / os.killpg (setup.py:99, 101): the process is no longer running.
Killed(ps, pid) == [ps EXCEPT ![pid].alive = FALSE]

\* dict item assignment d[k] = v (setup.py:57-58).
With(d, k, v) == [x \in DOMAIN d \cup {k} |-> IF x = k THEN v ELSE d[x]]

\* Faulty variant of ChildEnv: only the video driver is overridden.
ChildEnvNoCuda(environ) == With(environ, "SDL_VIDEODRIVER", "offscreen")

\* setup.py:56-58  env = os.environ.copy() with the two overrides.
ChildEnv(environ) ==
    With(With(environ, "SDL_VIDEODRIVER", "offscreen"),
         "SDL_HINT_CUDA_DEVICE", "0")

\* setup.py:56  os.environ after env = os.environ.copy() and the
\* assignments to env: the copy leaves it as it was.
EnvironAfterCopy(environ) == environ

\* setup.py:63 / 69  the shell finds the executable under CARLA_ROOT.
ExeFound(environ) ==
    "CARLA_ROOT" \in DOMAIN environ /\ environ["CARLA_ROOT"] \in InstallDirs

\* Faulty variant of WorldSettings: synchronous mode is not switched on.
WorldSettingsAsync(f) ==
    [synchronous_mode |-> FALSE, fixed_delta_seconds |-> <<1, f>>]

\* setup.py:86-89  carla.WorldSettings(synchronous_mode=True,
\* fixed_delta_seconds=1.0 / fps); the quotient is kept as the fraction
\* <<numerator, denominator>>.
WorldSettings(f) ==
    [synchronous_mode |-> TRUE, fixed_delta_seconds |-> <<1, f>>]

\* Exit status of the interpreter: sys.exit() without argument is status 0,
\* an uncaught exception is status 1.
StatusOf(e) == IF e = "SystemExit" THEN 0 ELSE 1

----------------------------------------------------------------------------
Init ==
    /\ town \in TownArgs
    /\ fps \in FpsArgs
    /\ num_max_restarts \in 0..MaxRestarts
    /\ os_name \in OsNames
    /\ os_environ \in AmbientEnvs
    /\ pc = "assert"
    /\ attempts = 0
    /\ port = 0
    /\ server = 0
    /\ procs = <<>>
    /\ hooks = <<>>
    /\ nlambda = 0
    /\ kills = <<>>
    /\ client = 0
    /\ frame = 0
    /\ steps = <<>>
    /\ exc = "none"
    /\ result = <<>>
    /\ exitIdx = 0
    /\ exitStatus = -1

\* setup.py:43-46
AssertTown ==
    /\ pc = "assert"
    /\ IF TownOk(town)
         THEN /\ pc' = "while"
              /\ attempts' = 0
              /\ exc' = exc
         ELSE /\ pc' = "raised"
              /\ exc' = "AssertionError"
              /\ attempts' = attempts
    /\ UNCHANGED <<params, os_environ, steps, port, server, procs, hooks,
                   nlambda, kills, client, frame, result, exitIdx,
                   exitStatus>>

\* setup.py:48
WhileTest ==
    /\ pc = "while"
    /\ pc' = IF LoopCond(attempts, num_max_restarts) THEN "port" ELSE "sysexit"
    /\ UNCHANGED <<params, os_environ, steps, attempts, port, server, procs,
                   hooks, nlambda, kills, client, frame, exc, result,
                   exitIdx, exitStatus>>

\* setup.py:53
AssignPort ==
    /\ pc = "port"
    /\ port' = PortOf(attempts)
    /\ pc' = "popen"
    /\ UNCHANGED <<params, os_environ, steps, attempts, server, procs, hooks,
                   nlambda, kills, client, frame, exc, result, exitIdx,
                   exitStatus>>

\* setup.py:56-65 (nt) / 68-71 (posix).  The environment is copied and
\* overlaid; os.path.join raises TypeError when CARLA_ROOT is not set;
\* otherwise Popen starts a shell (shell=True), whether or not the
\* executable exists.  A shell that ends by itself is still counted as
\* running until the program kills it.
Popen ==
    /\ pc = "popen"
    /\ os_environ' = EnvironAfterCopy(os_environ)
    /\ IF "CARLA_ROOT" \in DOMAIN os_environ
         THEN /\ procs' = Append(procs,
                     [port |-> port, alive |-> TRUE,
                      env |-> ChildEnv(os_environ),
                      map |-> "none", weather |-> "none",
                      settings |-> DefaultSettings, frame |-> 0])
              /\ server' = Len(procs) + 1
              /\ steps' = <<"popen">>
              /\ pc' = "register"
              /\ exc' = exc
         ELSE /\ pc' = "raised"
              /\ exc' = "TypeError"
              /\ UNCHANGED <<procs, server, steps>>
    /\ UNCHANGED <<params, attempts, port, hooks, nlambda, kills, client,
                   frame, result, exitIdx, exitStatus>>

\* Faulty variant of Register: no callback is handed to atexit.
RegisterSkipped ==
    /\ pc = "register"
    /\ steps' = Append(steps, "register")
    /\ pc' = "sleep"
    /\ UNCHANGED <<params, os_environ, attempts, port, server, procs, hooks,
                   nlambda, kills, client, frame, exc, result, exitIdx,
                   exitStatus>>

\* Faulty variant of Register: the warm-up delay is left out.
RegisterNoWarmup ==
    /\ pc = "register"
    /\ nlambda' = IF os_name = "nt" THEN nlambda + 1 ELSE nlambda
    /\ hooks' = Append(hooks, NewHook(os_name, server, nlambda + 1))
    /\ steps' = Append(steps, "register")
    /\ pc' = "client"
    /\ UNCHANGED <<params, os_environ, attempts, port, server, procs, kills,
                   client, frame, exc, result, exitIdx, exitStatus>>

\* setup.py:66 (nt) / 72 (posix)
Register ==
    /\ pc = "register"
    /\ nlambda' = IF os_name = "nt" THEN nlambda + 1 ELSE nlambda
    /\ hooks' = Append(hooks, NewHook(os_name, server, nlambda + 1))
    /\ steps' = Append(steps, "register")
    /\ pc' = "sleep"
    /\ UNCHANGED <<params, os_environ, attempts, port, server, procs, kills,
                   client, frame, exc, result, exitIdx, exitStatus>>

\* setup.py:74  time.sleep(server_timestop); it returns, or the wait is
\* interrupted (KeyboardInterrupt), which is outside the try block.
Sleep ==
    /\ pc = "sleep"
    /\ \/ /\ pc' = "client"
          /\ steps' = Append(steps, "sleep")
          /\ exc' = exc
       \/ /\ pc' = "raised"
          /\ steps' = steps
          /\ exc' = "KeyboardInterrupt"
    /\ UNCHANGED <<params, os_environ, attempts, port, server, procs, hooks,
                   nlambda, kills, client, frame, result, exitIdx, exitStatus>>

\* Exceptions an opaque carla call may raise: the RuntimeError the carla
\* client raises for time-outs and simulator errors, or anything else.
CallErrors == {"RuntimeError", "Exception"}

\* A statement of the try block (setup.py:78-92) raises: control goes to
\* the except clause.
Raises(from) ==
    /\ pc = from
    /\ pc' = "except"
    /\ exc' \in CallErrors
    /\ steps' = steps

\* A statement of the try block (setup.py:78-92) returns: control moves on.
Returns(from, to) ==
    /\ pc = from
    /\ pc' = to
    /\ exc' = exc
    /\ steps' = Append(steps, from)

\* A statement of the try block (setup.py:78-92) that calls the carla API:
\* it returns or it raises.
TryCall(from, to) == Returns(from, to) \/ Raises(from)

\* setup.py:79  client = carla.Client("localhost", port)
Client ==
    /\ TryCall("client", "set_timeout")
    /\ client' = IF pc' = "set_timeout" THEN port ELSE client
    /\ UNCHANGED <<params, os_environ, attempts, port, server, procs, hooks,
                   nlambda, kills, frame, result, exitIdx, exitStatus>>

\* setup.py:80
SetTimeout ==
    /\ TryCall("set_timeout", "load_world")
    /\ UNCHANGED <<params, os_environ, attempts, port, server, procs, hooks,
                   nlambda, kills, client, frame, result, exitIdx, exitStatus>>

\* setup.py:82  the first request sent to the simulator: it can only be
\* answered when the shell found the executable; otherwise it times out.
LoadWorld ==
    /\ \/ /\ ExeFound(os_environ)
          /\ Returns("load_world", "get_world")
          /\ procs' = [procs EXCEPT ![server].map = town]
       \/ /\ Raises("load_world")
          /\ procs' = procs
    /\ UNCHANGED <<params, os_environ, attempts, port, server, hooks, nlambda,
                   kills, client, frame, result, exitIdx, exitStatus>>

\* setup.py:83
GetWorld ==
    /\ TryCall("get_world", "set_weather")
    /\ UNCHANGED <<params, os_environ, attempts, port, server, procs, hooks,
                   nlambda, kills, client, frame, result, exitIdx, exitStatus>>

\* setup.py:84
SetWeather ==
    /\ \/ /\ Returns("set_weather", "apply_settings")
          /\ procs' = [procs EXCEPT ![server].weather = "ClearNoon"]
       \/ /\ Raises("set_weather")
          /\ procs' = procs
    /\ UNCHANGED <<params, os_environ, attempts, port, server, hooks, nlambda,
                   kills, client, frame, result, exitIdx, exitStatus>>

\* setup.py:85-89  the argument 1.0 / fps is evaluated first and raises
\* ZeroDivisionError for fps = 0; otherwise the simulator takes the
\* settings and the call returns the frame id.
ApplySettings ==
    /\ pc = "apply_settings"
    /\ IF fps = 0
         THEN /\ pc' = "except"
              /\ exc' = "ZeroDivisionError"
              /\ UNCHANGED <<frame, procs, steps>>
         ELSE \/ /\ Returns("apply_settings", "server_version")
                 /\ \E f \in FrameIds :
                       /\ procs' = [procs EXCEPT
                                      ![server].settings = WorldSettings(fps),
                                      ![server].frame = f]
                       /\ frame' = f
              \/ /\ Raises("apply_settings")
                 /\ UNCHANGED <<frame, procs>>
    /\ UNCHANGED <<params, os_environ, attempts, port, server, hooks, nlambda,
                   kills, client, result, exitIdx, exitStatus>>

\* setup.py:90
ServerVersion ==
    /\ TryCall("server_version", "client_version")
    /\ UNCHANGED <<params, os_environ, attempts, port, server, procs, hooks,
                   nlambda, kills, client, frame, result, exitIdx, exitStatus>>

\* setup.py:91
ClientVersion ==
    /\ TryCall("client_version", "return")
    /\ UNCHANGED <<params, os_environ, attempts, port, server, procs, hooks,
                   nlambda, kills, client, frame, result, exitIdx, exitStatus>>

\* setup.py:92  return client, world, frame, server
Return ==
    /\ pc = "return"
    /\ result' = <<[client |-> client, frame |-> frame, server |-> server]>>
    /\ pc' = "returned"
    /\ UNCHANGED <<params, os_environ, steps, attempts, port, server, procs,
                   hooks, nlambda, kills, client, frame, exc, exitIdx,
                   exitStatus>>

\* Faulty variant of Except: the call is tried again on the same server,
\* without counting the failure.
ExceptRetryConnect ==
    /\ pc = "except"
    /\ IF IsRetryable(exc)
         THEN /\ pc' = "client"
              /\ exc' = "none"
         ELSE /\ pc' = "raised"
              /\ exc' = exc
    /\ UNCHANGED <<params, os_environ, steps, attempts, port, server, procs,
                   hooks, nlambda, kills, client, frame, result, exitIdx,
                   exitStatus>>

\* setup.py:93  except RuntimeError: the clause matches and the handler
\* starts, or the exception leaves setup().
Except ==
    /\ pc = "except"
    /\ IF IsRetryable(exc)
         THEN /\ pc' = "inc"
              /\ exc' = "none"
         ELSE /\ pc' = "raised"
              /\ exc' = exc
    /\ UNCHANGED <<params, os_environ, steps, attempts, port, server, procs,
                   hooks, nlambda, kills, client, frame, result, exitIdx,
                   exitStatus>>

\* setup.py:95
IncAttempts ==
    /\ pc = "inc"
    /\ attempts' = NextAttempt(attempts)
    /\ pc' = "kill"
    /\ UNCHANGED <<params, os_environ, steps, port, server, procs, hooks,
                   nlambda, kills, client, frame, exc, result, exitIdx,
                   exitStatus>>

\* setup.py:98-101  os.kill(server.pid, SIGTERM) / os.killpg(server.pid, SIGKILL)
Kill ==
    /\ pc = "kill"
    /\ procs' = Killed(procs, server)
    /\ kills' = Append(kills, [pid |-> server, by |-> "handler"])
    /\ pc' = "unregister"
    /\ UNCHANGED <<params, os_environ, steps, attempts, port, server, hooks,
                   nlambda, client, frame, exc, result, exitIdx, exitStatus>>

\* setup.py:103  atexit.unregister(lambda: ...): the argument is a lambda
\* object created by this very expression.
UnregisterHook ==
    /\ pc = "unregister"
    /\ nlambda' = nlambda + 1
    /\ hooks' = Unregister(hooks, nlambda + 1)
    /\ pc' = "while"
    /\ UNCHANGED <<params, os_environ, steps, attempts, port, server, procs,
                   kills, client, frame, exc, result, exitIdx, exitStatus>>

\* setup.py:107  sys.exit()
SysExit ==
    /\ pc = "sysexit"
    /\ exc' = "SystemExit"
    /\ pc' = "raised"
    /\ UNCHANGED <<params, os_environ, steps, attempts, port, server, procs,
                   hooks, nlambda, kills, client, frame, result, exitIdx,
                   exitStatus>>

----------------------------------------------------------------------------
\* The rest of the program, up to interpreter exit

\* An exception that left setup() reaches the top level and ends the
\* program; the interpreter starts running the atexit callbacks.
Uncaught ==
    /\ pc = "raised"
    /\ exitStatus' = StatusOf(exc)
    /\ exitIdx' = Len(hooks)
    /\ pc' = "exiting"
    /\ UNCHANGED <<params, os_environ, steps, attempts, port, server, procs,
                   hooks, nlambda, kills, client, frame, exc, result>>

\* After setup() returned, the caller runs and the program ends at some
\* point, with either status.
CallerExit ==
    /\ pc = "returned"
    /\ exitStatus' \in {0, 1}
    /\ exitIdx' = Len(hooks)
    /\ pc' = "exiting"
    /\ UNCHANGED <<params, os_environ, steps, attempts, port, server, procs,
                   hooks, nlambda, kills, client, frame, exc, result>>

\* atexit runs the registered callbacks, last registered first
\* (setup.py:66, 72 are the callbacks).
RunExitHook ==
    /\ pc = "exiting"
    /\ exitIdx > 0
    /\ LET pid == HookTarget(hooks[exitIdx], server)
       IN  /\ procs' = Killed(procs, pid)
           /\ kills' = Append(kills, [pid |-> pid, by |-> "atexit"])
    /\ exitIdx' = exitIdx - 1
    /\ UNCHANGED <<params, os_environ, steps, pc, attempts, port, server,
                   hooks, nlambda, client, frame, exc, result, exitStatus>>

\* All callbacks have run: the process is gone.
FinishExit ==
    /\ pc = "exiting"
    /\ exitIdx = 0
    /\ pc' = "exited"
    /\ UNCHANGED <<params, os_environ, steps, attempts, port, server, procs,
                   hooks, nlambda, kills, client, frame, exc, result,
                   exitIdx, exitStatus>>

Next ==
    \/ AssertTown
    \/ WhileTest
    \/ AssignPort
    \/ Popen
    \/ Register
    \/ Sleep
    \/ Client
    \/ SetTimeout
    \/ LoadWorld
    \/ GetWorld
    \/ SetWeather
    \/ ApplySettings
    \/ ServerVersion
    \/ ClientVersion
    \/ Return
    \/ Except
    \/ IncAttempts
    \/ Kill
    \/ UnregisterHook
    \/ SysExit
    \/ Uncaught
    \/ CallerExit
    \/ RunExitHook
    \/ FinishExit

Spec == Init /\ [][Next]_vars

\* The program is sequential and every blocking statement returns or
\* raises, so a statement that can run does run.
FairSpec == Spec /\ WF_vars(Next)

TypeOK ==
    /\ attempts \in 0..MaxRestarts
    /\ Len(procs) <= MaxRestarts
    /\ server \in 0..Len(procs)

----------------------------------------------------------------------------
\* Derived notions used by the properties

Pids == 1..Len(procs)

Live == {p \in Pids : procs[p].alive}

\* Kill calls aimed at pid p, by the handler and by atexit callbacks alike.
KillsOf(p) == {i \in 1..Len(kills) : kills[i].pid = p}

HandlerKills == {i \in 1..Len(kills) : kills[i].by = "handler"}

\* Positions of setup() inside the try block after the client was created.
Connected == {"set_timeout", "load_world", "get_world", "set_weather",
              "apply_settings", "server_version", "client_version", "return"}

\* The statements of the current attempt that completed, as a set.
Done == {steps[i] : i \in 1..Len(steps)}

\* The statements of one attempt, in the order of the source (setup.py:61-91).
Order == <<"popen", "register", "sleep", "client", "set_timeout",
           "load_world", "get_world", "set_weather", "apply_settings",
           "server_version", "client_version">>

\* Positions at which a call of the carla client is about to be made.
AtRpc == {"client", "set_timeout", "load_world", "get_world", "set_weather",
          "apply_settings", "server_version", "client_version"}

\* Positions of the except clause and its handler (setup.py:93-103).
InHandler == {"except", "inc", "kill", "unregister"}

\* A process was launched in the current attempt and the handler has not
\* killed it.
Unkilled == server > 0 /\ \A i \in HandlerKills : kills[i].pid # server

\* Exceptions that statements of the try block raise.
TryErrors == CallErrors \cup {"ZeroDivisionError"}

Ended == {"raised", "exiting", "exited"}

----------------------------------------------------------------------------
\* C1: at most one shutdown hook is registered in the atexit registry in
\* every reachable state of setup().
C1_AtMostOneHook == Len(hooks) <= 1

\* C2: whenever control is at the top of a loop iteration, up to the launch
\* of the iteration's process, no hook is registered and no process of an
\* earlier iteration is running.
C2_CleanAtLoopTop ==
    pc \in {"while", "port", "popen"} => hooks = <<>> /\ Live = {}

\* C3: when setup() has returned, exactly one tuple was returned, exactly
\* one hook is registered, and that hook kills the process of the returned
\* tuple.
C3_OneHookOnReturn ==
    pc = "returned" =>
        /\ Len(result) = 1
        /\ Len(hooks) = 1
        /\ HookTarget(hooks[1], server) = result[1].server

\* C4: setup() never launches more than num_max_restarts servers; once the
\* counter has reached num_max_restarts no further server is launched, and
\* the only way on is the kill and unregister of the last failure, the
\* loop test and sys.exit().
C4_LaunchBound ==
    /\ [](Len(procs) <= num_max_restarts)
    /\ [][attempts = num_max_restarts => Len(procs') = Len(procs)]_vars
    /\ [](attempts = num_max_restarts /\ town \in Towns =>
            /\ pc \in {"assert", "kill", "unregister", "while", "sysexit"}
                        \cup Ended
            /\ pc \in Ended => exc = "SystemExit")

C4_Witness ==
    /\ num_max_restarts >= 2
    /\ attempts = num_max_restarts
    /\ Len(procs) = num_max_restarts
    /\ exc = "SystemExit"
    /\ pc = "exited"

C6_NoneLeftRunning ==
    pc = "exited" => Live = {} /\ \A p \in Pids : KillsOf(p) # {}

C6_Witness ==
    /\ pc = "exited"
    /\ Len(result) = 1
    /\ Len(procs) >= 2
    /\ \E i \in 1..Len(kills) :
          kills[i].by = "atexit" /\ kills[i].pid = result[1].server

\* C7: when the program ends because the retry budget is exhausted after at
\* least one attempt, its exit status is not the success status, every
\* spawned process is terminated and no hook is registered.
C7_ExhaustionExit ==
    pc \in {"exiting", "exited"} /\ exc = "SystemExit" /\ attempts >= 1 =>
        /\ exitStatus # 0
        /\ Live = {}
        /\ hooks = <<>>

\* C8: every spawned process is the target of at most one kill call over
\* the whole run, the atexit callbacks included.
C8_KilledAtMostOnce == \A p \in Pids : Cardinality(KillsOf(p)) <= 1

\* C9: with a town outside the allowed names, no process is spawned, no
\* hook is registered, no attempt is counted and nothing is returned: the
\* call ends with the AssertionError.
C9_BadTownRejected ==
    town \notin Towns =>
        /\ procs = <<>>
        /\ hooks = <<>>
        /\ kills = <<>>
        /\ attempts = 0
        /\ result = <<>>
        /\ pc \in {"assert"} \cup Ended
        /\ pc \in Ended => exc = "AssertionError"

C9_Witness == town \notin Towns /\ pc = "exited" /\ exitStatus = 1

\* C10 as stated: no exception raised by a statement of the try block
\* leaves setup().
C10_AnyFailureRetried == pc \in Ended => exc \notin TryErrors

\* C10 amended: a RuntimeError raised in the try block is caught and never
\* leaves setup(); the counter changes only in the handler and then by
\* exactly one; when the handler has run, as many attempts are counted as
\* processes were launched and handler kills were issued, and none of the
\* processes is running.
C10_RuntimeErrorRetried ==
    /\ [][pc = "except" /\ exc = "RuntimeError" => pc' = "inc"]_vars
    /\ [](pc \in Ended => exc # "RuntimeError")
    /\ [][attempts' # attempts => pc = "inc" /\ attempts' = attempts + 1]_vars
    /\ [](pc \in {"while", "sysexit"} =>
            /\ attempts = Len(procs)
            /\ Cardinality(HandlerKills) = attempts
            /\ Live = {})

C10_Witness ==
    /\ pc = "while"
    /\ attempts = 2
    /\ num_max_restarts = 3
    /\ Cardinality(HandlerKills) = 2

\* C11: when the simulator executable cannot be found or spawned, setup()
\* does not retry: the attempt counter stays 0 and no second process is
\* launched.
C11_MissingExeNotRetried ==
    ~ExeFound(os_environ) => attempts = 0 /\ Len(procs) <= 1

\* C12: a value is returned only by an attempt in which client creation,
\* load_world, set_weather and apply_settings all completed; the simulator
\* of that attempt then has the requested map, clear weather, synchronous
\* mode and the fixed step 1/fps, and the returned frame id is the one its
\* apply_settings call gave.  When setup() ends with an exception nothing
\* is returned.
C12_FullyConfigured ==
    /\ result # <<>> =>
          /\ pc \in {"returned", "exiting", "exited"}
          /\ exc = "none"
          /\ Len(result) = 1
          /\ {"client", "load_world", "set_weather", "apply_settings"}
                \subseteq Done
          /\ LET r == result[1]
                 sim == procs[r.server]
             IN  /\ r.server = Len(procs)
                 /\ r.client = sim.port
                 /\ sim.map = town
                 /\ sim.weather = "ClearNoon"
                 /\ sim.settings.synchronous_mode
                 /\ sim.settings.fixed_delta_seconds = <<1, fps>>
                 /\ r.frame = sim.frame
                 /\ r.frame \in FrameIds
    /\ exc # "none" /\ pc \in Ended => result = <<>>

C12_Witness ==
    /\ pc = "returned"
    /\ attempts = 1
    /\ procs[1].frame \in FrameIds
    /\ result # <<>>

\* C13: at most one spawned process is running at any time, and none is
\* running when the next one is about to be spawned.
C13_OneLiveProcess ==
    /\ Cardinality(Live) <= 1
    /\ pc = "popen" => Live = {}

C13_Witness ==
    /\ Len(procs) = 2
    /\ Live = {2}
    /\ pc = "sleep"

\* C14: when setup() returns after k failed attempts, the returned client
\* is connected to port 2000 + k, exactly k kill calls were issued, one for
\* each failed attempt's process and none for the last one, and k + 1
\* processes were launched.
C14_SuccessAfterFailures ==
    pc = "returned" =>
        /\ result[1].client = BasePort + attempts
        /\ Len(procs) = attempts + 1
        /\ Len(kills) = attempts
        /\ \A i \in 1..Len(kills) : kills[i].pid = i /\ kills[i].by = "handler"
        /\ Live = {attempts + 1}

C14_Witness ==
    /\ pc = "returned"
    /\ attempts = 2
    /\ result[1].client = BasePort + 2
    /\ Len(kills) = 2

\* C15: the statements completed in an attempt are always an initial part
\* of launch, register, warm-up, client, set_timeout, load_world,
\* get_world, set_weather, apply_settings, version queries; a carla call is
\* made only after the warm-up of the attempt completed; and once a call
\* has raised, no further statement of the attempt completes.
C15_StepOrder ==
    /\ [](/\ Len(steps) <= Len(Order)
          /\ steps = SubSeq(Order, 1, Len(steps)))
    /\ [](pc \in AtRpc => "sleep" \in Done)
    /\ [][(pc \in InHandler) => (steps' = steps)]_vars

C15_Witness ==
    /\ pc = "kill"
    /\ attempts = 2
    /\ steps = SubSeq(Order, 1, 5)

\* C16: once apply_settings has completed in an attempt, the failure
\* handler never kills that attempt's process.
C16_ReadyNotKilled ==
    "apply_settings" \in Done => \A i \in HandlerKills : kills[i].pid # server

C18_Terminates ==
    /\ <>(pc = "returned" \/ pc \in Ended)
    /\ [][attempts' >= attempts]_vars
    /\ [][(pc = "inc") => (attempts' = attempts + 1)]_vars

C18_Witness ==
    /\ pc = "raised"
    /\ exc = "SystemExit"
    /\ attempts = 3
    /\ Len(procs) = 3

\* C19: with num_max_restarts = 0, setup() launches no process, registers
\* no hook, completes no statement of an attempt, returns nothing, and goes
\* from the loop test straight to sys.exit().
C19_ZeroRestarts ==
    num_max_restarts <= 0 =>
        /\ procs = <<>>
        /\ hooks = <<>>
        /\ steps = <<>>
        /\ client = 0
        /\ result = <<>>
        /\ pc \in {"assert", "while", "sysexit"} \cup Ended
        /\ pc \in Ended /\ town \in Towns => exc = "SystemExit"

C19_Witness ==
    /\ num_max_restarts = 0
    /\ exc = "SystemExit"
    /\ pc = "exited"

\* C20: from the warm-up of an attempt until the handler kills the
\* attempt's process, a registered hook targets that process; and when the
\* program has exited without the handler having killed it, an atexit
\* callback has killed it.
C20_HookCoversWindow ==
    /\ Unkilled /\ pc # "register" =>
          \E i \in 1..Len(hooks) : HookTarget(hooks[i], server) = server
    /\ Unkilled /\ pc = "exited" =>
          /\ ~procs[server].alive
          /\ \E i \in 1..Len(kills) :
                kills[i].by = "atexit" /\ kills[i].pid = server

C20_Witness ==
    /\ pc = "exited"
    /\ exc = "ZeroDivisionError"
    /\ Len(procs) = 2
    /\ \E i \in 1..Len(kills) : kills[i].by = "atexit" /\ kills[i].pid = 2

====
